---- MODULE Spec2Model ----
(***************************************************************************)
(* Model of src/agentic.py: the T-shirt order chain (TShirtOrderChain) and *)
(* the Flask handler index() that feeds it.  Every POST request is handled *)
(* on its own thread; the handler takes an order id from the global        *)
(* order_count, builds the order record from the form and runs the chain   *)
(* (_call -> asyncio.run(_ainvoke)).  Strings are sequences of one-        *)
(* character strings so that upper(), lower() and strip() are computed,    *)
(* and money is kept in integer cents.                                     *)
(***************************************************************************)
EXTENDS Integers, Sequences, FiniteSets, TLC

VARIABLES order_count, pc, form, tmp, order_data, order, current_step,
          result, exc, log, progress, rendered

vars == <<order_count, pc, form, tmp, order_data, order, current_step,
          result, exc, log, progress, rendered>>

\* ---------------------------------------------------------------- bounds
\* Number of POST requests the server handles (each on its own thread).
NumRequests == 2
\* random.uniform(lo, hi) is sampled at lo + k*(hi-lo)/Grain, k = 0..Grain.
Grain == 1

Requests == 1..NumRequests

\* ------------------------------------------------------------- characters
LowerLetters == <<"a","b","c","d","e","f","g","h","i","j","k","l","m",
                  "n","o","p","q","r","s","t","u","v","w","x","y","z">>
UpperLetters == <<"A","B","C","D","E","F","G","H","I","J","K","L","M",
                  "N","O","P","Q","R","S","T","U","V","W","X","Y","Z">>
\* The characters str.strip() removes.
Whitespace == {" ", "\t", "\n"}

\* str.upper() on one character.
UpperChar(c) ==
  IF \E i \in 1..26 : LowerLetters[i] = c
    THEN UpperLetters[CHOOSE i \in 1..26 : LowerLetters[i] = c]
    ELSE c
\* str.lower() on one character.
LowerChar(c) ==
  IF \E i \in 1..26 : UpperLetters[i] = c
    THEN LowerLetters[CHOOSE i \in 1..26 : UpperLetters[i] = c]
    ELSE c
\* str.upper()
StrUpper(s) == [i \in 1..Len(s) |-> UpperChar(s[i])]
\* str.lower()
StrLower(s) == [i \in 1..Len(s) |-> LowerChar(s[i])]

RECURSIVE LStrip(_)
LStrip(s) == IF s # <<>> /\ s[1] \in Whitespace THEN LStrip(Tail(s)) ELSE s
RECURSIVE RStrip(_)
RStrip(s) ==
  IF s # <<>> /\ s[Len(s)] \in Whitespace
    THEN RStrip(SubSeq(s, 1, Len(s) - 1)) ELSE s
\* str.strip()
StrStrip(s) == RStrip(LStrip(s))

\* ------------------------------------------------------ program constants
\* valid_sizes = ['S', 'M', 'L', 'XL']
valid_sizes == <<<<"S">>, <<"M">>, <<"L">>, <<"X", "L">>>>
\* valid_colors = ['red', 'blue', 'green', 'black', 'white']
valid_colors == <<<<"r", "e", "d">>, <<"b", "l", "u", "e">>, <<"g", "r", "e", "e", "n">>,
                  <<"b", "l", "a", "c", "k">>, <<"w", "h", "i", "t", "e">>>>
\* design_pricing_ranges, in cents.
design_pricing_ranges ==
  (<<"a", "b", "s", "t", "r", "a", "c", "t">> :> <<400, 600>>) @@
  (<<"v", "i", "n", "t", "a", "g", "e">> :> <<600, 800>>) @@
  (<<"m", "o", "d", "e", "r", "n">> :> <<500, 700>>)
\* base_cost = 10.0, in cents.
base_cost == 1000
\* size_multiplier, in tenths: 1.0 and, for XL, 1.2.
size_multiplier_default == 10
size_multiplier_xl == 12
\* design_cost = 4.0 for a design that is not in the table, in cents.
default_design_cost == 400
\* text_cost = 0.05 * text_length, in cents per character.
text_cost_per_char == 5
\* total_steps = 2
total_steps == 2
\* "estimated_cost": 0.0 of the result index() builds on an error, and the
\* default of order.get("estimated_cost", 0.0).
zero_cost == 0

Range(s) == {s[i] : i \in 1..Len(s)}

\* random.uniform(lo, hi), sampled.
Uniform(lo, hi) == {lo + ((hi - lo) * k) \div Grain : k \in 0..Grain}

\* ----------------------------------------------------------------- inputs
\* request.form["customer_name"]
CustomerNames == {<<"A", "n", "n">>}
MkForm(n, s, c, d, t) ==
  [customer_name |-> n, size |-> s, color |-> c, design |-> d, text |-> t]
\* The forms submitted while several requests are in flight.
BatchForms ==
  { MkForm(<<"A", "n", "n">>, <<"M">>, <<"B", "l", "u", "e">>,
           <<"A", "b", "s", "t", "r", "a", "c", "t">>, <<>>),
    MkForm(<<"A", "n", "n">>, <<"X", "X", "L">>, <<"R", "e", "d">>,
           <<"V", "i", "n", "t", "a", "g", "e">>, <<>>),
    MkForm(<<"A", "n", "n">>, <<"x", "l">>, <<"p", "i", "n", "k">>,
           <<"r", "e", "t", "r", "o">>, <<" ", "h", "i", " ">>) }
SizeInputs == {<<"S">>,
               <<"m">>,
               <<"L">>,
               <<"x", "l">>,
               <<"X", "l">>,
               <<"X", "L">>,
               <<"X", "X", "L">>,
               <<>>,
               <<"X">>}
ColorInputs == {<<"r", "e", "d">>,
                <<"B", "l", "u", "e">>,
                <<"G", "R", "E", "E", "N">>,
                <<"b", "l", "a", "c", "k">>,
                <<"W", "h", "i", "t", "e">>,
                <<"p", "i", "n", "k">>,
                <<>>}
DesignInputs == {<<"A", "b", "s", "t", "r", "a", "c", "t">>,
                 <<"v", "i", "n", "t", "a", "g", "e">>,
                 <<"M", "O", "D", "E", "R", "N">>,
                 <<"r", "e", "t", "r", "o">>,
                 <<>>}
TextInputs == {<<>>,
               <<" ">>,
               <<"h", "i">>,
               <<" ", "h", "i", " ">>,
               <<"a", " ", "b">>,
               <<"\t", "h", "i", "\n">>}
\* The fields of a form.
form_fields == {"customer_name", "size", "color", "design", "text"}
\* Forms that lack one field.
MissingForms ==
  {[k \in form_fields \ {key} |-> f[k]] : f \in BatchForms, key \in form_fields}
\* The forms submitted to a server that handles one request.
AllForms ==
  {MkForm(n, s, c, d, t) : n \in CustomerNames, s \in SizeInputs,
     c \in ColorInputs, d \in DesignInputs, t \in TextInputs}

\* ---------------------------------------------------------------- records
\* A name that is not bound yet, or a dict with no key.
Unbound == [k \in {} |-> 0]
Has(rec, k) == k \in DOMAIN rec
\* dict.get(k, default)
Get(rec, k, default) == IF Has(rec, k) THEN rec[k] ELSE default
\* rec[k] = v
Set(rec, k, v) == (k :> v) @@ rec

\* ValueError(f"Invalid <field> '<value>'. Valid options: <allowed>.")
MkError(field, value, allowed) ==
  [field |-> field, value |-> value, allowed |-> allowed]
NoError == MkError("", <<>>, <<>>)
\* The error request.form[key] raises for a key the form does not have.
KeyError(key) == MkError(key, <<>>, <<>>)
\* The error of reading the local order_data before it was assigned.
UnboundLocalError == MkError("order_data", <<>>, <<>>)
\* The fields index() reads with request.form[...], in the order it reads them.
required_fields == <<"customer_name", "size", "color", "design">>
FirstMissing(f) ==
  required_fields[CHOOSE i \in 1..Len(required_fields) :
    /\ ~Has(f, required_fields[i])
    /\ \A j \in 1..(i - 1) : Has(f, required_fields[j])]
\* One line of the log about an order.
LogLine(tag, err) == [tag |-> tag, err |-> err]

\* ------------------------------------------------------------ the stages
\* A faulty validation: the color is not checked.
CustomizeError_SizeOnly(o) ==
  IF StrUpper(o.size) \notin Range(valid_sizes)
    THEN MkError("size", o.size, valid_sizes)
    ELSE NoError

\* A faulty validation: the color is checked before the size.
CustomizeError_ColorFirst(o) ==
  IF StrLower(o.color) \notin Range(valid_colors)
    THEN MkError("color", o.color, valid_colors)
  ELSE IF StrUpper(o.size) \notin Range(valid_sizes)
    THEN MkError("size", o.size, valid_sizes)
  ELSE NoError

\* customize_order's validation: the error it raises, or NoError.
CustomizeError(o) ==
  IF StrUpper(o.size) \notin Range(valid_sizes)
    THEN MkError("size", o.size, valid_sizes)
  ELSE IF StrLower(o.color) \notin Range(valid_colors)
    THEN MkError("color", o.color, valid_colors)
  ELSE NoError

\* A faulty multiplier: the size is compared as typed.
SizeCost_CaseSensitive(o) ==
  IF o.size = <<"X", "L">>
    THEN (base_cost * size_multiplier_xl) \div 10
    ELSE (base_cost * size_multiplier_default) \div 10

\* price_order: base_cost * size_multiplier, in cents.
SizeCost(o) ==
  IF StrUpper(o.size) = <<"X", "L">>
    THEN (base_cost * size_multiplier_xl) \div 10
    ELSE (base_cost * size_multiplier_default) \div 10

\* A faulty lookup: a design that is not in the table has no cost (the
\* lookup raises).
DesignCosts_NoDefault(o) ==
  IF StrLower(o.design) \in DOMAIN design_pricing_ranges
    THEN Uniform(design_pricing_ranges[StrLower(o.design)][1],
                 design_pricing_ranges[StrLower(o.design)][2])
    ELSE {}

\* price_order: the values design_cost can take.
DesignCosts(o) ==
  IF StrLower(o.design) \in DOMAIN design_pricing_ranges
    THEN Uniform(design_pricing_ranges[StrLower(o.design)][1],
                 design_pricing_ranges[StrLower(o.design)][2])
    ELSE {default_design_cost}

\* A faulty text cost: the characters are counted before the text is
\* stripped.
TextCost_Untrimmed(o) ==
  IF StrStrip(Get(o, "text", <<>>)) # <<>>
    THEN text_cost_per_char * Len(o.text)
    ELSE 0

\* price_order: text_cost.
TextCost(o) ==
  IF StrStrip(Get(o, "text", <<>>)) # <<>>
    THEN text_cost_per_char * Len(StrStrip(o.text))
    ELSE 0

\* price_order: order["estimated_cost"] = ...
EstimatedCost(o, design_cost) == SizeCost(o) + design_cost + TextCost(o)

\* The dict _ainvoke returns.
AinvokeResult(o) ==
  [estimated_cost |-> Get(o, "estimated_cost", zero_cost),
   status |-> Get(o, "status", "failed")]

\* The result index() builds when handling the request raised.
FailedResult == [status |-> "failed", estimated_cost |-> zero_cost]

\* update_loading_bar(order_id, current_step, total_steps)
ProgressEvent(id, step) == <<id, step, total_steps>>

\* ----------------------------------------------------------------- state
Init ==
  /\ order_count = 0
  /\ pc = [r \in Requests |-> "idle"]
  /\ form = [r \in Requests |-> Unbound]
  /\ tmp = [r \in Requests |-> 0]
  /\ order_data = [r \in Requests |-> Unbound]
  /\ order = [r \in Requests |-> Unbound]
  /\ current_step = [r \in Requests |-> 0]
  /\ result = [r \in Requests |-> Unbound]
  /\ exc = [r \in Requests |-> NoError]
  /\ log = [r \in Requests |-> <<>>]
  /\ progress = [r \in Requests |-> <<>>]
  /\ rendered = [r \in Requests |-> Unbound]

\* --------------------------------------------------------------- index()
\* A POST with form f arrives; order_count += 1 reads the global.
IndexLoad(r, f) ==
  /\ pc[r] = "idle"
  /\ form' = [form EXCEPT ![r] = f]
  /\ tmp' = [tmp EXCEPT ![r] = order_count]
  /\ pc' = [pc EXCEPT ![r] = "store"]
  /\ UNCHANGED <<order_count, order_data, order, current_step, result, exc,
                 log, progress, rendered>>

\* order_count += 1 writes the global; the value read is dropped.
IndexStore(r) ==
  /\ pc[r] = "store"
  /\ order_count' = tmp[r] + 1
  /\ tmp' = [tmp EXCEPT ![r] = 0]
  /\ pc' = [pc EXCEPT ![r] = "build"]
  /\ UNCHANGED <<form, order_data, order, current_step, result, exc,
                 log, progress, rendered>>

\* A faulty handler: the order record is built with a cost already in it.
IndexBuild_WithCost(r) ==
  /\ pc[r] = "build"
  /\ order_data' = [order_data EXCEPT ![r] =
       [order_id |-> order_count,
        customer_name |-> form[r].customer_name,
        size |-> form[r].size,
        color |-> form[r].color,
        design |-> form[r].design,
        text |-> Get(form[r], "text", <<>>),
        estimated_cost |-> zero_cost]]
  /\ pc' = [pc EXCEPT ![r] = "call"]
  /\ UNCHANGED <<order_count, form, tmp, order, current_step, result, exc,
                 log, progress, rendered>>

\* order_data = {"order_id": order_count, ...} from the form.  request.form[k]
\* raises for the first key that is missing, before order_data is bound.
IndexBuild(r) ==
  /\ pc[r] = "build"
  /\ IF \E i \in 1..Len(required_fields) : ~Has(form[r], required_fields[i])
       THEN /\ exc' = [exc EXCEPT ![r] = KeyError(FirstMissing(form[r]))]
            /\ pc' = [pc EXCEPT ![r] = "except"]
            /\ order_data' = order_data
       ELSE /\ order_data' = [order_data EXCEPT ![r] =
                 [order_id |-> order_count,
                  customer_name |-> form[r].customer_name,
                  size |-> form[r].size,
                  color |-> form[r].color,
                  design |-> form[r].design,
                  text |-> Get(form[r], "text", <<>>)]]
            /\ pc' = [pc EXCEPT ![r] = "call"]
            /\ exc' = exc
  /\ UNCHANGED <<order_count, form, tmp, order, current_step, result, log,
                 progress, rendered>>

\* --------------------------------------------------- TShirtOrderChain
\* A faulty _ainvoke: price_order is started without customize_order having
\* been awaited.
AinvokeStart_NoAwait(r) ==
  /\ pc[r] = "call"
  /\ order' = [order EXCEPT ![r] = order_data[r]]
  /\ current_step' = [current_step EXCEPT ![r] = 0]
  /\ log' = [log EXCEPT ![r] = Append(@, LogLine("commencing", NoError))]
  /\ progress' = [progress EXCEPT ![r] =
       Append(@, ProgressEvent(order_data[r].order_id, 0))]
  /\ pc' = [pc EXCEPT ![r] = "price"]
  /\ UNCHANGED <<order_count, form, tmp, order_data, result, exc, rendered>>

\* _call -> asyncio.run(_ainvoke(inputs)): the copy, the counters, the
\* first log line and the empty loading bar.
AinvokeStart(r) ==
  /\ pc[r] = "call"
  /\ order' = [order EXCEPT ![r] = order_data[r]]
  /\ current_step' = [current_step EXCEPT ![r] = 0]
  /\ log' = [log EXCEPT ![r] = Append(@, LogLine("commencing", NoError))]
  /\ progress' = [progress EXCEPT ![r] =
       Append(@, ProgressEvent(order_data[r].order_id, 0))]
  /\ pc' = [pc EXCEPT ![r] = "customize"]
  /\ UNCHANGED <<order_count, form, tmp, order_data, result, exc, rendered>>

\* A faulty customize_order: an order that is not valid is validated again
\* instead of being rejected.
CustomizeValidate_Retry(r) ==
  /\ pc[r] = "customize"
  /\ LET e == CustomizeError(order[r]) IN
       IF e # NoError
         THEN /\ log' = log
              /\ pc' = pc
         ELSE /\ log' = [log EXCEPT ![r] =
                   @ \o <<LogLine("customization_start", NoError),
                          LogLine("customization_delay", NoError)>>]
              /\ pc' = [pc EXCEPT ![r] = "sleep_customize"]
  /\ UNCHANGED <<order_count, form, tmp, order_data, order, current_step,
                 result, exc, progress, rendered>>

\* A faulty customize_order: the delay comes before the validation.
CustomizeValidate_DelayFirst(r) ==
  /\ pc[r] = "customize"
  /\ LET e == CustomizeError(order[r]) IN
       IF e # NoError
         THEN /\ log' = [log EXCEPT ![r] =
                   @ \o <<LogLine("customization_start", NoError),
                          LogLine("customization_delay", NoError),
                          LogLine("customization_invalid", e)>>]
              /\ exc' = [exc EXCEPT ![r] = e]
              /\ pc' = [pc EXCEPT ![r] = "except"]
         ELSE /\ log' = [log EXCEPT ![r] =
                   @ \o <<LogLine("customization_start", NoError),
                          LogLine("customization_delay", NoError)>>]
              /\ exc' = exc
              /\ pc' = [pc EXCEPT ![r] = "sleep_customize"]
  /\ UNCHANGED <<order_count, form, tmp, order_data, order, current_step,
                 result, progress, rendered>>

\* customize_order up to its sleep: it raises, and the error leaves
\* _ainvoke and _call, or it starts its delay.
CustomizeValidate(r) ==
  /\ pc[r] = "customize"
  /\ LET e == CustomizeError(order[r]) IN
       IF e # NoError
         THEN /\ log' = [log EXCEPT ![r] =
                   @ \o <<LogLine("customization_start", NoError),
                          LogLine("customization_invalid", e)>>]
              /\ exc' = [exc EXCEPT ![r] = e]
              /\ pc' = [pc EXCEPT ![r] = "except"]
         ELSE /\ log' = [log EXCEPT ![r] =
                   @ \o <<LogLine("customization_start", NoError),
                          LogLine("customization_delay", NoError)>>]
              /\ exc' = exc
              /\ pc' = [pc EXCEPT ![r] = "sleep_customize"]
  /\ UNCHANGED <<order_count, form, tmp, order_data, order, current_step,
                 result, progress, rendered>>

\* A faulty run: the record is the caller's own (no copy was made), so the
\* status is written to it too.
CustomizeWake_WritesInput(r) ==
  /\ pc[r] = "sleep_customize"
  /\ order' = [order EXCEPT ![r] = Set(@, "status", "customized")]
  /\ order_data' = [order_data EXCEPT ![r] = Set(@, "status", "customized")]
  /\ log' = [log EXCEPT ![r] =
       Append(@, LogLine("customization_completed", NoError))]
  /\ current_step' = [current_step EXCEPT ![r] = @ + 1]
  /\ progress' = [progress EXCEPT ![r] =
       Append(@, ProgressEvent(order[r].order_id, current_step[r] + 1))]
  /\ pc' = [pc EXCEPT ![r] = "price"]
  /\ UNCHANGED <<order_count, form, tmp, result, exc, rendered>>

\* A faulty customize_order: the size is stored in upper case.
CustomizeWake_Normalising(r) ==
  /\ pc[r] = "sleep_customize"
  /\ order' = [order EXCEPT ![r] =
       Set(Set(@, "size", StrUpper(order[r].size)), "status", "customized")]
  /\ log' = [log EXCEPT ![r] =
       Append(@, LogLine("customization_completed", NoError))]
  /\ current_step' = [current_step EXCEPT ![r] = @ + 1]
  /\ progress' = [progress EXCEPT ![r] =
       Append(@, ProgressEvent(order[r].order_id, current_step[r] + 1))]
  /\ pc' = [pc EXCEPT ![r] = "price"]
  /\ UNCHANGED <<order_count, form, tmp, order_data, result, exc, rendered>>

\* A faulty customize_order: the status it sets is that of the other stage.
CustomizeWake_Priced(r) ==
  /\ pc[r] = "sleep_customize"
  /\ order' = [order EXCEPT ![r] = Set(@, "status", "priced")]
  /\ log' = [log EXCEPT ![r] =
       Append(@, LogLine("customization_completed", NoError))]
  /\ current_step' = [current_step EXCEPT ![r] = @ + 1]
  /\ progress' = [progress EXCEPT ![r] =
       Append(@, ProgressEvent(order[r].order_id, current_step[r] + 1))]
  /\ pc' = [pc EXCEPT ![r] = "price"]
  /\ UNCHANGED <<order_count, form, tmp, order_data, result, exc, rendered>>

\* customize_order after its sleep, and _ainvoke up to the call of
\* price_order.
CustomizeWake(r) ==
  /\ pc[r] = "sleep_customize"
  /\ order' = [order EXCEPT ![r] = Set(@, "status", "customized")]
  /\ log' = [log EXCEPT ![r] =
       Append(@, LogLine("customization_completed", NoError))]
  /\ current_step' = [current_step EXCEPT ![r] = @ + 1]
  /\ progress' = [progress EXCEPT ![r] =
       Append(@, ProgressEvent(order[r].order_id, current_step[r] + 1))]
  /\ pc' = [pc EXCEPT ![r] = "price"]
  /\ UNCHANGED <<order_count, form, tmp, order_data, result, exc, rendered>>

\* A faulty price_order: the status is set before the sleep.
PriceCompute_StatusFirst(r) ==
  /\ pc[r] = "price"
  /\ \E design_cost \in DesignCosts(order[r]) :
       order' = [order EXCEPT ![r] =
         Set(Set(@, "estimated_cost", EstimatedCost(order[r], design_cost)),
             "status", "priced")]
  /\ log' = [log EXCEPT ![r] =
       @ \o <<LogLine("pricing_start", NoError),
              LogLine("pricing_delay", NoError)>>]
  /\ pc' = [pc EXCEPT ![r] = "sleep_price"]
  /\ UNCHANGED <<order_count, form, tmp, order_data, current_step, result,
                 exc, progress, rendered>>

\* price_order up to its sleep.
PriceCompute(r) ==
  /\ pc[r] = "price"
  /\ \E design_cost \in DesignCosts(order[r]) :
       order' = [order EXCEPT ![r] =
         Set(@, "estimated_cost", EstimatedCost(order[r], design_cost))]
  /\ log' = [log EXCEPT ![r] =
       @ \o <<LogLine("pricing_start", NoError),
              LogLine("pricing_delay", NoError)>>]
  /\ pc' = [pc EXCEPT ![r] = "sleep_price"]
  /\ UNCHANGED <<order_count, form, tmp, order_data, current_step, result,
                 exc, progress, rendered>>

\* A faulty _ainvoke: current_step is not incremented after price_order.
PriceWake_NoIncrement(r) ==
  /\ pc[r] = "sleep_price"
  /\ order' = [order EXCEPT ![r] = Set(@, "status", "priced")]
  /\ log' = [log EXCEPT ![r] = Append(@, LogLine("pricing_final", NoError))]
  /\ progress' = [progress EXCEPT ![r] =
       Append(@, ProgressEvent(order[r].order_id, current_step[r]))]
  /\ result' = [result EXCEPT ![r] =
       AinvokeResult(Set(order[r], "status", "priced"))]
  /\ pc' = [pc EXCEPT ![r] = "render"]
  /\ UNCHANGED <<order_count, form, tmp, order_data, current_step, exc,
                 rendered>>

\* price_order after its sleep, the rest of _ainvoke, and index() binding
\* what _call returned to result.
PriceWake(r) ==
  /\ pc[r] = "sleep_price"
  /\ order' = [order EXCEPT ![r] = Set(@, "status", "priced")]
  /\ log' = [log EXCEPT ![r] = Append(@, LogLine("pricing_final", NoError))]
  /\ current_step' = [current_step EXCEPT ![r] = @ + 1]
  /\ progress' = [progress EXCEPT ![r] =
       Append(@, ProgressEvent(order[r].order_id, current_step[r] + 1))]
  /\ result' = [result EXCEPT ![r] =
       AinvokeResult(Set(order[r], "status", "priced"))]
  /\ pc' = [pc EXCEPT ![r] = "render"]
  /\ UNCHANGED <<order_count, form, tmp, order_data, exc, rendered>>

\* ------------------------------------------------------- index(), the end
\* A faulty handler: the failed result is kept where every request reads
\* its result.
IndexExcept_Shared(r) ==
  /\ pc[r] = "except"
  /\ log' = [log EXCEPT ![r] = Append(@, LogLine("ui_error", exc[r]))]
  /\ result' = [q \in Requests |-> FailedResult]
  /\ exc' = [exc EXCEPT ![r] = NoError]
  /\ pc' = [pc EXCEPT ![r] = "render"]
  /\ UNCHANGED <<order_count, form, tmp, order_data, order, current_step,
                 progress, rendered>>

\* A faulty handler: the error is logged and raised again, no result is
\* built.
IndexExcept_Reraise(r) ==
  /\ pc[r] = "except"
  /\ log' = [log EXCEPT ![r] = Append(@, LogLine("ui_error", exc[r]))]
  /\ pc' = [pc EXCEPT ![r] = "done"]
  /\ UNCHANGED <<order_count, form, tmp, order_data, order, current_step,
                 result, exc, progress, rendered>>

\* except Exception as e: log it and build the failed result.
IndexExcept(r) ==
  /\ pc[r] = "except"
  /\ log' = [log EXCEPT ![r] = Append(@, LogLine("ui_error", exc[r]))]
  /\ result' = [result EXCEPT ![r] = FailedResult]
  /\ exc' = [exc EXCEPT ![r] = NoError]
  /\ pc' = [pc EXCEPT ![r] = "render"]
  /\ UNCHANGED <<order_count, form, tmp, order_data, order, current_step,
                 progress, rendered>>

\* A faulty handler: the page is rendered with the order record built last,
\* whichever request built it.
IndexRender_LatestOrder(r) ==
  /\ pc[r] = "render"
  /\ rendered' = [rendered EXCEPT ![r] =
       [result |-> result[r],
        order |-> order_data[CHOOSE q \in Requests :
                    /\ order_data[q] # Unbound
                    /\ \A p \in Requests :
                         order_data[p] # Unbound =>
                           order_data[p].order_id <= order_data[q].order_id]]]
  /\ pc' = [pc EXCEPT ![r] = "done"]
  /\ UNCHANGED <<order_count, form, tmp, order_data, order, current_step,
                 result, exc, log, progress>>

\* return render_template_string(HTML_TEMPLATE, result=result, order=order_data)
\* Reading order_data when the try block raised before binding it raises in
\* turn, outside the try block: the error leaves index().
IndexRender(r) ==
  /\ pc[r] = "render"
  /\ IF order_data[r] = Unbound
       THEN /\ exc' = [exc EXCEPT ![r] = UnboundLocalError]
            /\ pc' = [pc EXCEPT ![r] = "crashed"]
            /\ rendered' = rendered
       ELSE /\ rendered' = [rendered EXCEPT ![r] =
                 [result |-> result[r], order |-> order_data[r]]]
            /\ pc' = [pc EXCEPT ![r] = "done"]
            /\ exc' = exc
  /\ UNCHANGED <<order_count, form, tmp, order_data, order, current_step,
                 result, log, progress>>

\* A GET: the empty form is rendered with the next order id.
IndexGet(r) ==
  /\ pc[r] = "idle"
  /\ rendered' = [rendered EXCEPT ![r] =
       [result |-> Unbound, order |-> [order_id |-> order_count + 1]]]
  /\ pc' = [pc EXCEPT ![r] = "shown"]
  /\ UNCHANGED <<order_count, form, tmp, order_data, order, current_step,
                 result, exc, log, progress>>

\* ------------------------------------------------------- specifications
\* Every request is handled on its own thread: any of them takes the next
\* step.
Next ==
  \E r \in Requests :
    \/ \E f \in BatchForms : IndexLoad(r, f)
    \/ IndexGet(r)
    \/ IndexStore(r)
    \/ IndexBuild(r)
    \/ AinvokeStart(r)
    \/ CustomizeValidate(r)
    \/ CustomizeWake(r)
    \/ PriceCompute(r)
    \/ PriceWake(r)
    \/ IndexExcept(r)
    \/ IndexRender(r)

Spec == Init /\ [][Next]_vars

\* One request, with any of the forms.
NextSingle ==
  \/ \E f \in AllForms : IndexLoad(1, f)
  \/ IndexStore(1)
  \/ IndexBuild(1)
  \/ AinvokeStart(1)
  \/ CustomizeValidate(1)
  \/ CustomizeWake(1)
  \/ PriceCompute(1)
  \/ PriceWake(1)
  \/ IndexExcept(1)
  \/ IndexRender(1)

SpecSingle == Init /\ [][NextSingle]_vars

\* One request, with any of the forms or with a form that lacks a field.
NextPost ==
  \/ \E f \in AllForms \cup MissingForms : IndexLoad(1, f)
  \/ IndexGet(1)
  \/ IndexStore(1)
  \/ IndexBuild(1)
  \/ AinvokeStart(1)
  \/ CustomizeValidate(1)
  \/ CustomizeWake(1)
  \/ PriceCompute(1)
  \/ PriceWake(1)
  \/ IndexExcept(1)
  \/ IndexRender(1)

SpecPost == Init /\ [][NextPost]_vars

\* The threads that handle the requests are all scheduled, and a sleep ends.
Step(r) ==
  \/ IndexStore(r)
  \/ IndexBuild(r)
  \/ AinvokeStart(r)
  \/ CustomizeValidate(r)
  \/ CustomizeWake(r)
  \/ PriceCompute(r)
  \/ PriceWake(r)
  \/ IndexExcept(r)
  \/ IndexRender(r)

FairSpec == Spec /\ \A r \in Requests : WF_vars(Step(r))

\* ------------------------------------------------------------ properties
Logged(r, tag) == \E i \in 1..Len(log[r]) : log[r][i].tag = tag
Times(r, tag) == Cardinality({i \in 1..Len(log[r]) : log[r][i].tag = tag})

\* Two characters that are the same letter, in either case.
SameLetter(c, d) ==
  c = d \/ \E i \in 1..26 : {c, d} = {LowerLetters[i], UpperLetters[i]}
EqualIgnoringCase(a, b) ==
  Len(a) = Len(b) /\ \A i \in 1..Len(a) : SameLetter(a[i], b[i])
SizeAllowed(s) ==
  \E v \in {<<"S">>, <<"M">>, <<"L">>, <<"X", "L">>} : EqualIgnoringCase(s, v)
ColorAllowed(c) ==
  \E v \in {<<"r", "e", "d">>, <<"b", "l", "u", "e">>,
            <<"g", "r", "e", "e", "n">>, <<"b", "l", "a", "c", "k">>,
            <<"w", "h", "i", "t", "e">>} : EqualIgnoringCase(c, v)
FormAllowed(f) == SizeAllowed(f.size) /\ ColorAllowed(f.color)

\* C1: within one run the stages execute in sequence and at most once each:
\* price_order for an order starts only after customize_order for the same
\* order has completed, whatever the other runs are doing.
C1_StagesInSequence ==
  \A r \in Requests :
    /\ \A tag \in {"customization_start", "customization_completed",
                   "pricing_start", "pricing_final"} : Times(r, tag) <= 1
    /\ \A i \in 1..Len(log[r]) :
         log[r][i].tag = "pricing_start" =>
           \E j \in 1..(i - 1) : log[r][j].tag = "customization_completed"
    /\ pc[r] \in {"price", "sleep_price"} =>
         /\ Logged(r, "customization_completed")
         /\ Get(order[r], "status", "none") = "customized"

\* A run has started pricing while another run is still in customization.
C1_Witness ==
  \E r, q \in Requests :
    /\ r # q
    /\ Logged(r, "pricing_start")
    /\ pc[q] = "sleep_customize"

\* C2: an order whose size or color is not allowed (in any letter case) fails
\* customization, is never priced, never gets an estimated_cost, and is
\* reported with status failed.
C2_InvalidOrderFails ==
  \A r \in Requests :
    (pc[r] # "idle" /\ ~FormAllowed(form[r])) =>
      /\ pc[r] \notin {"sleep_customize", "price", "sleep_price"}
      /\ ~Logged(r, "customization_completed")
      /\ ~Logged(r, "pricing_start")
      /\ ~Has(order[r], "estimated_cost")
      /\ pc[r] \in {"except", "render", "done"} =>
           Logged(r, "customization_invalid")
      /\ pc[r] \in {"render", "done"} => result[r].status = "failed"
      /\ pc[r] = "done" => rendered[r].result.status = "failed"

\* An order with an allowed size and a color that is not allowed has been
\* reported.
C2_Witness ==
  \E r \in Requests :
    /\ pc[r] = "done"
    /\ SizeAllowed(form[r].size)
    /\ ~ColorAllowed(form[r].color)
    /\ rendered[r].result.status = "failed"

\* C3: the status of an order is always one of pending, customized, priced,
\* failed, starting with pending.
C3_StatusAlwaysOneOfFour ==
  \A r \in Requests :
    order[r] # Unbound =>
      /\ Has(order[r], "status")
      /\ order[r].status \in {"pending", "customized", "priced", "failed"}

\* The status field of request r's order record, "absent" when it has none.
StatusOf(o) == Get(o, "status", "absent")

\* C3, amended: the order record of a run has no status field when the run
\* starts; the only changes of its status are absent -> customized and
\* customized -> priced, so priced is never left and the record never holds
\* pending or failed.  failed occurs only as the status of a result, and a
\* result, once built, is priced or failed and never changes.
C3_StatusTransitions ==
  /\ [](\A r \in Requests :
          /\ StatusOf(order[r]) \in {"absent", "customized", "priced"}
          /\ pc[r] = "customize" => StatusOf(order[r]) = "absent"
          /\ result[r] # Unbound => result[r].status \in {"priced", "failed"})
  /\ [][\A r \in Requests :
          /\ StatusOf(order'[r]) # StatusOf(order[r]) =>
               <<StatusOf(order[r]), StatusOf(order'[r])>> \in
                 {<<"absent", "customized">>, <<"customized", "priced">>}
          /\ result[r] # Unbound => result'[r] = result[r]]_vars

\* One order is priced while another, rejected, has a failed result and
\* still no status in its record.
C3_Witness ==
  \E r, q \in Requests :
    /\ StatusOf(order[r]) = "priced"
    /\ result[q] # Unbound
    /\ result[q].status = "failed"
    /\ StatusOf(order[q]) = "absent"

\* C4: a stage failure is caught inside _call / _ainvoke: no error ever
\* reaches the caller of _call.
C4_CallNeverRaises ==
  \A r \in Requests : pc[r] # "except" /\ exc[r] = NoError

\* C4, amended: a stage failure is not caught by _ainvoke or _call; it
\* reaches index() with no result returned, and the except clause of
\* index() logs it and builds the result with status failed and cost 0.
\* A run that did not fail returns its result without that clause.
C4_IndexCatchesFailure ==
  \A r \in Requests :
    /\ pc[r] = "except" =>
         /\ exc[r] # NoError
         /\ exc[r] = CustomizeError(order[r])
         /\ result[r] = Unbound
    /\ pc[r] # "except" => exc[r] = NoError
    /\ (pc[r] \in {"render", "done"} /\ Logged(r, "customization_invalid")) =>
         /\ log[r][Len(log[r])].tag = "ui_error"
         /\ result[r] = FailedResult
    /\ (pc[r] \in {"render", "done"} /\ ~Logged(r, "customization_invalid")) =>
         /\ ~Logged(r, "ui_error")
         /\ result[r].status = "priced"

\* A failed run has been answered by index().
C4_Witness ==
  \E r \in Requests :
    /\ pc[r] = "done"
    /\ Logged(r, "ui_error")
    /\ rendered[r].result = FailedResult

\* The price of a form, stated from its fields: the part every order of that
\* size pays, the least and the greatest design cost, and the text part.
ExpectedSizePart(f) ==
  IF EqualIgnoringCase(f.size, <<"X", "L">>) THEN 1200 ELSE 1000
ExpectedDesignLow(f) ==
  IF EqualIgnoringCase(f.design, <<"a", "b", "s", "t", "r", "a", "c", "t">>)
    THEN 400
  ELSE IF EqualIgnoringCase(f.design, <<"v", "i", "n", "t", "a", "g", "e">>)
    THEN 600
  ELSE IF EqualIgnoringCase(f.design, <<"m", "o", "d", "e", "r", "n">>)
    THEN 500
  ELSE 400
ExpectedDesignHigh(f) ==
  IF EqualIgnoringCase(f.design, <<"a", "b", "s", "t", "r", "a", "c", "t">>)
    THEN 600
  ELSE IF EqualIgnoringCase(f.design, <<"v", "i", "n", "t", "a", "g", "e">>)
    THEN 800
  ELSE IF EqualIgnoringCase(f.design, <<"m", "o", "d", "e", "r", "n">>)
    THEN 700
  ELSE 400
\* The number of characters from the first to the last one that is not
\* white space.
TrimmedLength(t) ==
  LET solid == {i \in 1..Len(t) : t[i] \notin {" ", "\t", "\n"}} IN
    IF solid = {} THEN 0
    ELSE (CHOOSE i \in solid : \A j \in solid : j <= i)
         - (CHOOSE i \in solid : \A j \in solid : i <= j) + 1
ExpectedTextPart(f) == 5 * TrimmedLength(f.text)
ExpectedLow(f) ==
  ExpectedSizePart(f) + ExpectedDesignLow(f) + ExpectedTextPart(f)
ExpectedHigh(f) ==
  ExpectedSizePart(f) + ExpectedDesignHigh(f) + ExpectedTextPart(f)
\* What a form's fields alone say its reported result is.
ExpectedResult(f, res) ==
  IF FormAllowed(f)
    THEN /\ res.status = "priced"
         /\ res.estimated_cost \in ExpectedLow(f)..ExpectedHigh(f)
    ELSE /\ res.status = "failed"
         /\ res.estimated_cost = 0

\* What the model holds about request q alone.
Private(q) ==
  <<pc[q], form[q], tmp[q], order_data[q], order[q], current_step[q],
    result[q], exc[q], log[q], progress[q], rendered[q]>>

\* C5: error isolation between concurrent runs: the result reported for an
\* order depends on that order's own fields only, and a step of one run, its
\* failure included, changes nothing of any other run.
C5_ErrorIsolation ==
  /\ [](\A r \in Requests :
          /\ pc[r] \in {"render", "done"} => ExpectedResult(form[r], result[r])
          /\ pc[r] = "done" => ExpectedResult(form[r], rendered[r].result))
  /\ [][\A r \in Requests :
          pc'[r] # pc[r] =>
            \A q \in Requests \ {r} : Private(q)' = Private(q)]_vars

\* A failed order and a priced one have both been reported.
C5_Witness ==
  \E r, q \in Requests :
    /\ pc[r] = "done" /\ rendered[r].result.status = "failed"
    /\ pc[q] = "done" /\ rendered[q].result.status = "priced"

AllDone == \A r \in Requests : pc[r] = "done"
DistinctIds ==
  \A r, q \in Requests :
    r # q => order_data[r].order_id # order_data[q].order_id

C7_CostOnlyWhenPriced ==
  \A r \in Requests :
    Has(order[r], "estimated_cost") => StatusOf(order[r]) = "priced"

\* C7, amended: estimated_cost is defined from the moment price_order has
\* computed it: it is undefined while the status is absent or customized
\* before price_order ran, defined while price_order is in its delay with
\* the status still customized, and defined whenever the status is priced.
\* The record of a run that failed never has it; the failed result carries
\* the placeholder 0.
C7_CostOnceComputed ==
  \A r \in Requests :
    /\ Has(order[r], "estimated_cost") <=>
         (pc[r] \notin {"idle", "store", "build", "call"}
          /\ Logged(r, "pricing_start"))
    /\ Has(order[r], "estimated_cost") =>
         StatusOf(order[r]) \in {"customized", "priced"}
    /\ pc[r] = "sleep_price" =>
         /\ Has(order[r], "estimated_cost")
         /\ StatusOf(order[r]) = "customized"
    /\ StatusOf(order[r]) = "priced" => Has(order[r], "estimated_cost")
    /\ (pc[r] \in {"render", "done"} /\ result[r].status = "failed") =>
         /\ ~Has(order[r], "estimated_cost")
         /\ result[r].estimated_cost = 0

\* A run is in the delay of price_order, its cost computed.
C7_Witness ==
  \E r \in Requests :
    /\ pc[r] = "sleep_price"
    /\ Has(order[r], "estimated_cost")
    /\ StatusOf(order[r]) = "customized"

\* C8: a result with status failed carries the description of the error
\* that caused the failure, naming the size field for an invalid size.
C8_FailedResultCarriesError ==
  \A r \in Requests :
    (pc[r] = "done" /\ rendered[r].result.status = "failed") =>
      /\ Has(rendered[r].result, "error")
      /\ ~SizeAllowed(form[r].size) => rendered[r].result.error.field = "size"

\* C9: the cost of a priced order is base * multiplier + design_cost +
\* text_cost: 1200 cents for XL in any letter case and 1000 otherwise, a
\* design cost in the range of its design (exactly 400 for a design that is
\* not in the table), and 5 cents per character of the trimmed text.
C9_PricingFormula ==
  \A r \in Requests :
    StatusOf(order[r]) = "priced" =>
      /\ \E d \in ExpectedDesignLow(form[r])..ExpectedDesignHigh(form[r]) :
           order[r].estimated_cost =
             ExpectedSizePart(form[r]) + d + ExpectedTextPart(form[r])
      /\ result[r].estimated_cost = order[r].estimated_cost
      /\ ( /\ form[r].size = <<"M">>
           /\ form[r].color = <<"B", "l", "u", "e">>
           /\ form[r].design = <<"A", "b", "s", "t", "r", "a", "c", "t">>
           /\ form[r].text = <<>> ) =>
           order[r].estimated_cost \in 1400..1600

\* An XL order typed in lower case, with a design of the table and a text
\* with white space around it, has been priced.
C9_Witness ==
  \E r \in Requests :
    /\ StatusOf(order[r]) = "priced"
    /\ form[r].size = <<"x", "l">>
    /\ form[r].design = <<"M", "O", "D", "E", "R", "N">>
    /\ form[r].text = <<" ", "h", "i", " ">>
    /\ order[r].estimated_cost = 1200 + 700 + 10

\* C10: an order whose size and color are allowed, in any letter case,
\* passes customize_order, which sets its status to customized and leaves
\* every other field as it was.
C10_CustomizeSucceeds ==
  \A r \in Requests :
    (pc[r] # "idle" /\ FormAllowed(form[r])) =>
      /\ pc[r] # "except"
      /\ ~Logged(r, "customization_invalid")
      /\ pc[r] = "price" =>
           /\ DOMAIN order[r] = DOMAIN order_data[r] \cup {"status"}
           /\ order[r].status = "customized"
           /\ \A k \in DOMAIN order_data[r] : order[r][k] = order_data[r][k]
           /\ \A k \in DOMAIN form[r] : order[r][k] = form[r][k]

\* An order typed in mixed case has passed customize_order.
C10_Witness ==
  \E r \in Requests :
    /\ pc[r] = "price"
    /\ form[r].size = <<"X", "l">>
    /\ form[r].color = <<"G", "R", "E", "E", "N">>
    /\ order[r].status = "customized"

\* C11: the error of a rejected order names the invalid field with the
\* offending value and the allowed set: size whenever the size is not
\* allowed, also when the color is not allowed either, and color only when
\* the size is allowed and the color is not.
C11_ErrorNamesField ==
  \A r \in Requests :
    pc[r] = "except" =>
      /\ ~FormAllowed(form[r])
      /\ ~SizeAllowed(form[r].size) =>
           /\ exc[r].field = "size"
           /\ exc[r].value = form[r].size
           /\ exc[r].allowed = <<<<"S">>, <<"M">>, <<"L">>, <<"X", "L">>>>
      /\ SizeAllowed(form[r].size) =>
           /\ exc[r].field = "color"
           /\ exc[r].value = form[r].color
           /\ exc[r].allowed =
                <<<<"r", "e", "d">>, <<"b", "l", "u", "e">>,
                  <<"g", "r", "e", "e", "n">>, <<"b", "l", "a", "c", "k">>,
                  <<"w", "h", "i", "t", "e">>>>
      /\ log[r][Len(log[r])] = LogLine("customization_invalid", exc[r])

\* An order whose size and color are both not allowed has been rejected, the
\* error naming the size.
C11_Witness ==
  \E r \in Requests :
    /\ pc[r] = "except"
    /\ ~SizeAllowed(form[r].size)
    /\ ~ColorAllowed(form[r].color)
    /\ exc[r].field = "size"
    /\ exc[r].value = <<"X", "X", "L">>

\* C12: the Pricing stage never fails: an order that passed customization,
\* whatever its design and its text (absent, empty, white space only or
\* not), goes through price_order, which can always take its next step,
\* raises nothing and ends with the status priced.
C12_PricingNeverFails ==
  \A r \in Requests :
    Logged(r, "customization_completed") =>
      /\ pc[r] \in {"price", "sleep_price", "render", "done"}
      /\ exc[r] = NoError
      /\ ~Logged(r, "ui_error")
      /\ pc[r] = "price" => ENABLED PriceCompute(r)
      /\ pc[r] = "sleep_price" => ENABLED PriceWake(r)
      /\ pc[r] \in {"render", "done"} =>
           /\ StatusOf(order[r]) = "priced"
           /\ Logged(r, "pricing_final")
           /\ result[r].status = "priced"

\* An order submitted without a text field has been priced.
C12_Witness ==
  \E r \in Requests :
    /\ pc[r] = "done"
    /\ ~Has(form[r], "text")
    /\ StatusOf(order[r]) = "priced"
    /\ rendered[r].result.status = "priced"

\* The request is being handled: a POST was received and not answered yet.
Started(r) ==
  pc[r] \in {"store", "build", "call", "customize", "sleep_customize",
             "price", "sleep_price", "except", "render"}
\* The run of request r has started and has not ended.
Running(r) ==
  pc[r] \in {"customize", "sleep_customize", "price", "sleep_price"}

\* C13: run to completion: under fair scheduling every started run ends,
\* reported as priced when its size and color are allowed and as failed
\* otherwise; no run stays in customization or pricing for ever.
\* It is stated as what fair scheduling turns into termination: a started
\* run can always take a step of its own, every step moves it forward in a
\* finite order of positions, and the only position it can stop in is done.
Position(p) ==
  CASE p = "idle" -> 0
    [] p = "store" -> 1
    [] p = "build" -> 2
    [] p = "call" -> 3
    [] p = "customize" -> 4
    [] p = "sleep_customize" -> 5
    [] p = "price" -> 6
    [] p = "sleep_price" -> 7
    [] p = "except" -> 8
    [] p = "render" -> 9
    [] OTHER -> 10
Ended(r) ==
  /\ pc[r] = "done"
  /\ rendered[r].result.status =
       IF FormAllowed(form[r]) THEN "priced" ELSE "failed"
  /\ FormAllowed(form[r]) => StatusOf(order[r]) = "priced"
C13_EventuallyEnded ==
  <>[](\A r \in Requests : ~Started(r))

C14_RunOwnsItsCopy ==
  /\ [](\A r \in Requests :
          order_data[r] # Unbound =>
            /\ DOMAIN order_data[r] =
                 {"order_id", "customer_name", "size", "color", "design",
                  "text"}
            /\ \A k \in DOMAIN form[r] : order_data[r][k] = form[r][k]
            /\ order[r] # Unbound =>
                 \A k \in DOMAIN order_data[r] : order[r][k] = order_data[r][k])
  /\ [][\A r \in Requests :
          /\ order_data[r] # Unbound => order_data'[r] = order_data[r]
          /\ pc'[r] # pc[r] =>
               \A q \in Requests \ {r} :
                 order'[q] = order[q] /\ order_data'[q] = order_data[q]]_vars

\* A run has returned with its copy priced, another has failed, and both
\* callers' records are as they were built.
C14_Witness ==
  \E r, q \in Requests :
    /\ pc[r] = "render" /\ StatusOf(order[r]) = "priced"
    /\ Has(order[r], "estimated_cost")
    /\ ~Has(order_data[r], "status") /\ ~Has(order_data[r], "estimated_cost")
    /\ pc[q] = "render" /\ result[q] = FailedResult
    /\ ~Has(order_data[q], "status")

\* The stages of request r's run that have completed.
Completed(r) ==
  Times(r, "customization_completed") + Times(r, "pricing_final")

\* C15: a progress event (order_id, i, 2) is emitted after each successful
\* stage and only then, i being the number of stages completed so far.
C15_EventsOnlyAfterStages ==
  \A r \in Requests :
    /\ Len(progress[r]) = Completed(r)
    /\ \A i \in 1..Len(progress[r]) :
         progress[r][i] = <<order_data[r].order_id, i, 2>>

\* C15, amended: a progress event (order_id, 0, 2) is emitted when the run
\* starts, before any stage; after each successful stage one more event is
\* emitted, with i the number of stages completed so far (1, then 2) and
\* N = 2; nothing is emitted after a stage has failed.
C15_EventsFromZero ==
  \A r \in Requests :
    /\ order[r] = Unbound => progress[r] = <<>>
    /\ order[r] # Unbound =>
         /\ Len(progress[r]) = 1 + Completed(r)
         /\ \A i \in 1..Len(progress[r]) :
              progress[r][i] = <<order_data[r].order_id, i - 1, 2>>
         /\ current_step[r] = Completed(r)
    /\ Logged(r, "customization_invalid") =>
         progress[r] = <<<<order_data[r].order_id, 0, 2>>>>

\* One run has emitted its three events and another, rejected, only the
\* first.
C15_Witness ==
  \E r, q \in Requests :
    /\ Len(progress[r]) = 3
    /\ progress[r][3] = <<order_data[r].order_id, 2, 2>>
    /\ pc[q] = "done"
    /\ Logged(q, "customization_invalid")
    /\ Len(progress[q]) = 1

\* The text typed in form f, the empty text when the form has no text field.
TextTyped(f) == Get(f, "text", <<>>)
\* A text from its first to its last character that is not white space.
Trimmed(t) ==
  LET solid == {i \in 1..Len(t) : t[i] \notin {" ", "\t", "\n"}} IN
    IF solid = {} THEN <<>>
    ELSE SubSeq(t, CHOOSE i \in solid : \A j \in solid : i <= j,
                   CHOOSE i \in solid : \A j \in solid : j <= i)

\* C16: the text part of the price depends on the trimmed text only: it is
\* 5 cents times the number of characters of the trimmed text, the same as
\* for the order with the trimmed text typed, and an order whose text is
\* absent, empty or white space only costs what it costs with empty text.
C16_TextCostOfTrimmedText ==
  \A r \in Requests :
    Has(order[r], "estimated_cost") =>
      LET t == TextTyped(form[r])
          part == order[r].estimated_cost - ExpectedSizePart(form[r])
      IN
        /\ TextCost(order[r]) = 5 * Len(Trimmed(t))
        /\ TextCost(order[r]) = TextCost(Set(order[r], "text", Trimmed(t)))
        /\ part - 5 * Len(Trimmed(t)) \in
             ExpectedDesignLow(form[r])..ExpectedDesignHigh(form[r])
        /\ Trimmed(t) = <<>> =>
             /\ TextCost(order[r]) = 0
             /\ part \in ExpectedDesignLow(form[r])..ExpectedDesignHigh(form[r])
        /\ ExpectedDesignLow(form[r]) = ExpectedDesignHigh(form[r]) =>
             part = 400 + 5 * Len(Trimmed(t))

\* An order whose text has white space around two characters has been
\* priced, with a design that is not in the table: 10 cents of text.
C16_Witness ==
  \E r \in Requests :
    /\ StatusOf(order[r]) = "priced"
    /\ TextTyped(form[r]) = <<"\t", "h", "i", "\n">>
    /\ form[r].design = <<"r", "e", "t", "r", "o">>
    /\ form[r].size = <<"S">>
    /\ order[r].estimated_cost = 1000 + 400 + 10

\* The delays request r's run has entered.
Delays(r) == Times(r, "customization_delay") + Times(r, "pricing_delay")
\* The run of r is between two suspensions, executing.
Executing(r) == pc[r] \in {"customize", "price"}

\* C17: a run yields to other runs only at its two delays: a successful run
\* suspends exactly twice, the status update of each stage is complete
\* before the suspension of that stage begins, and no two runs are ever
\* executing at once.
C17_StatusBeforeSuspension ==
  /\ \A r \in Requests :
       /\ pc[r] = "sleep_customize" => StatusOf(order[r]) = "customized"
       /\ pc[r] = "sleep_price" => StatusOf(order[r]) = "priced"
       /\ StatusOf(order[r]) = "priced" => Delays(r) = 2
  /\ \A r, q \in Requests : (r # q /\ Executing(r)) => ~Executing(q)

\* C17, amended: a run suspends only at its two delays, one in
\* customize_order after the validation and one in price_order after the
\* cost is computed, so a successful run suspends exactly twice and a
\* rejected one never.  The status update of a stage is made after its
\* suspension has ended: the status is still absent during the first delay
\* and still customized, with estimated_cost already set, during the
\* second.  Runs are on separate threads: steps of other runs can come
\* between any two steps of a run, and they change nothing of it.
C17_StatusAfterSuspension ==
  /\ [](\A r \in Requests :
          /\ pc[r] = "sleep_customize" =>
               /\ StatusOf(order[r]) = "absent"
               /\ Delays(r) = 1
               /\ log[r][Len(log[r])].tag = "customization_delay"
          /\ pc[r] = "sleep_price" =>
               /\ StatusOf(order[r]) = "customized"
               /\ Has(order[r], "estimated_cost")
               /\ Delays(r) = 2
               /\ log[r][Len(log[r])].tag = "pricing_delay"
          /\ StatusOf(order[r]) = "priced" =>
               /\ Times(r, "customization_delay") = 1
               /\ Times(r, "pricing_delay") = 1
          /\ Logged(r, "customization_invalid") => Delays(r) = 0)
  /\ [][\A r \in Requests :
          /\ StatusOf(order'[r]) # StatusOf(order[r]) =>
               pc[r] \in {"sleep_customize", "sleep_price"}
          /\ pc'[r] # pc[r] =>
               \A q \in Requests \ {r} : Private(q)' = Private(q)]_vars

\* One run is in the delay of price_order, its status still customized,
\* while another run is executing its validation.
C17_Witness ==
  \E r, q \in Requests :
    /\ pc[r] = "sleep_price"
    /\ StatusOf(order[r]) = "customized"
    /\ Has(order[r], "estimated_cost")
    /\ pc[q] = "customize"

\* The run of r has started with an order that is not valid and has not
\* failed yet.
AboutToFail(r) == pc[r] = "customize" /\ ~FormAllowed(form[r])

\* C18: a run whose size or color is not allowed fails before its first
\* suspension, never enters a delay, and no step of another run comes
\* between its start and its failure.
C18_NoStepBeforeFailure ==
  /\ [](\A r \in Requests :
          (Running(r) /\ ~FormAllowed(form[r])) => pc[r] = "customize")
  /\ [][\A r \in Requests :
          AboutToFail(r) => \A q \in Requests \ {r} : pc'[q] = pc[q]]_vars

\* C18, amended: validation precedes any suspension, so a run whose size or
\* color is not allowed fails in its first step after its start, before any
\* suspension, and never enters a delay.  Runs are on separate threads, so
\* steps of other runs can come between its start and its failure; they
\* change nothing of the failing run.
C18_FailsBeforeAnyDelay ==
  /\ [](\A r \in Requests :
          (order[r] # Unbound /\ ~FormAllowed(form[r])) =>
            /\ pc[r] \notin {"sleep_customize", "price", "sleep_price"}
            /\ Delays(r) = 0
            /\ StatusOf(order[r]) = "absent"
            /\ pc[r] # "customize" => Logged(r, "customization_invalid"))
  /\ [][\A r \in Requests :
          AboutToFail(r) =>
            /\ pc'[r] # pc[r] =>
                 /\ pc'[r] = "except"
                 /\ exc'[r] = CustomizeError(order[r])
                 /\ exc'[r] # NoError
            /\ \A q \in Requests \ {r} :
                 pc'[q] # pc[q] => Private(r)' = Private(r)]_vars

\* A run that is about to fail has started and another run is executing:
\* whichever moves next, the other's step lies between a start and a failure
\* or a delay.
C18_Witness ==
  \E r, q \in Requests :
    /\ AboutToFail(r)
    /\ Logged(r, "commencing")
    /\ pc[q] = "price"


\* The POST requests that have consumed an order id.
Counted == {r \in Requests : pc[r] \notin {"idle", "store", "shown"}}

\* C19: order ids are pairwise distinct also under concurrent POST requests:
\* every POST consumes exactly one order id from order_count, and a GET
\* leaves order_count unchanged.
C19_OrderIdsDistinct ==
  /\ \A r, q \in Requests :
       (r # q /\ order_data[r] # Unbound /\ order_data[q] # Unbound) =>
         order_data[r].order_id # order_data[q].order_id
  /\ order_count = Cardinality(Counted)


\* C20: every POST ends by rendering a result: any error raised while the
\* order is built or processed, a missing form field included, becomes a
\* failed result and never escapes index().
C20_EveryPostRendersResult ==
  \A r \in Requests :
    /\ pc[r] # "crashed"
    /\ pc[r] = "done" =>
         /\ rendered[r].result # Unbound
         /\ rendered[r].result.status \in {"priced", "failed"}
         /\ exc[r] # NoError => rendered[r].result = FailedResult

====
